---- MODULE Spec2Model ----
(***************************************************************************)
(* A model of the data-access core of ausmash-python:                      *)
(*   - the caching, rate-limited client of ausmash/api.py (Spec),          *)
(*   - the lazy partial-resource proxy of ausmash/resource.py              *)
(*     (SpecResource),                                                     *)
(*   - the bracket topology resolver of ausmash/models/tournament.py       *)
(*     (SpecPhases), with Result.total_entrants,                           *)
(*   - the placing ladder of ausmash/models/result.py (SpecLadder),        *)
(*   - Character.parse of ausmash/classes/character.py (SpecParse),        *)
(*   - the client of ausmash/api.py as several threads run it              *)
(*     (SpecThreads).                                                      *)
(* Optional values (Python's None or a value) are sequences of length at   *)
(* most one: <<>> is None, <<v>> is the value v.                           *)
(***************************************************************************)
EXTENDS Integers, Sequences, FiniteSets, TLC

VARIABLES
    \* ---- ausmash/api.py ----
    sleep_on_rate_limit,   \* _settings.sleep_on_rate_limit
    last_sent,             \* <<>> (None), or <<s>>: datetime.now() - ss.last_sent, in seconds,
                           \* rounded down to the longest window (0, second, minute, hour) it covers
    requests_per_second,   \* ss.requests_per_second
    requests_per_minute,   \* ss.requests_per_minute
    requests_per_hour,     \* ss.requests_per_hour
    memo,                  \* functools.cache of _call_api: (url, params) -> <<>> or <<bytes>>
    disk,                  \* the on-disk response cache of ss.sesh: key -> <<>> or <<entry>>
    ret,                   \* what the latest call_api call did and how it ended
    \* ---- ausmash/resource.py ----
    res,                   \* the Resource instance under observation
    rret,                  \* what the latest field read did and how it ended
    \* ---- ausmash/models/tournament.py ----
    tourney,               \* the Tournament: its declared events with their results
    phase_event_cache,     \* the (event id, previous) -> phase mapping kept on the Tournament
    pret,                  \* what the latest phase query did and returned
    \* ---- ausmash/models/result.py, rounds_from_victory ----
    lret,                  \* what the latest seed_performance_rating call took and returned
    \* ---- ausmash/classes/character.py ----
    roster,                \* Character.characters_in_game(game)
    cret,                  \* what the latest Character.parse call took and returned
    \* ---- ausmash/api.py, called from several threads ----
    cls_instance,          \* _SessionSingleton.__instance: <<>> or <<i>>, an index of objects
    objects,               \* the _SessionSingleton objects created so far, in order
    pc,                    \* per thread: the statement it is about to run
    local                  \* per thread: its local variables

vars == <<sleep_on_rate_limit, last_sent, requests_per_second, requests_per_minute,
          requests_per_hour, memo, disk, ret, res, rret, tourney, phase_event_cache, pret,
          lret, roster, cret, cls_instance, objects, pc, local>>

clientVars == <<sleep_on_rate_limit, last_sent, requests_per_second, requests_per_minute,
                requests_per_hour, memo, disk, ret>>
resourceVars == <<res, rret>>
phaseVars == <<tourney, phase_event_cache, pret>>
ladderVars == <<lret>>
parseVars == <<roster, cret>>
threadVars == <<cls_instance, objects, pc, local>>

None == <<>>
Some(v) == <<v>>

(***************************************************************************)
(*                     ausmash/api.py: the client                          *)
(***************************************************************************)

\* The windows of the rate budget, in seconds.
second == 1
minute == 60
hour == 3600

\* The ceilings of the three windows. The code only ever compares a counter with
\* its ceiling by ==, so the model scales 200 / 5000 / 300000 down to small numbers
\* that keep their order; they are raised with the other bounds.
RATE_LIMIT_SECOND == 2
RATE_LIMIT_MINUTE == 3
RATE_LIMIT_HOUR == 4

\* Bound: a counter is not driven past this value (calls that would are not issued).
MaxCount == 5
\* Bound: the same, where the cache is exercised with several requests.
MaxCacheCount == 2
\* Bound: the number of distinct response bodies the server may answer with.
MaxContent == 2

Contents == 1 .. MaxContent
NoContent == 0

\* Requests as call_api hands them to _call_api: a path and the parameters as a
\* tuple of (key, value) pairs in the mapping's insertion order.
Paths == {"players"}
ParamKeys == {"a", "b"}
ParamValue == "1"
ParamTuples ==
    {<<>>} \cup {<<<<p[1], ParamValue>>, <<p[2], ParamValue>>>> :
                     p \in {q \in ParamKeys \X ParamKeys : q[1] # q[2]}}
Requests == [path : Paths, params : ParamTuples]
PlainRequest == [path |-> "players", params |-> <<>>]
\* The requests with parameters: the same key/value pairs in either order.
ParamRequests == {r \in Requests : r.params # <<>>}

\* The query string requests builds from the parameter tuple: k=v joined by & in
\* the order given. A string is modelled as the sequence of its tokens.
RECURSIVE QueryString(_)
QueryString(params) ==
    IF params = <<>> THEN <<>>
    ELSE <<params[1][1], "=", params[1][2]>>
         \o (IF Len(params) > 1 THEN <<"&">> \o QueryString(Tail(params)) ELSE <<>>)

\* A plausible slip: the query is dropped from the key.
create_key_NoQuery(request) == <<request.path>>

\* _FileCacheWithDirectories.create_key: the URL's path, then "/" and the query
\* string when there is one.
create_key(request) ==
    LET query == QueryString(request.params)
    IN  <<request.path>> \o (IF query # <<>> THEN <<"/">> \o query ELSE <<>>)

Keys == {create_key(r) : r \in Requests}

\* What the network can answer to one outbound request: an HTTP status with a
\* body, or no answer at all (status 0: the transport raises ConnectionError).
NetOutcomes ==
    {[status |-> 200, content |-> c] : c \in Contents}
        \cup {[status |-> s, content |-> NoContent] : s \in {404, 500, 0}}

\* A cache entry: the stored body and whether its expiry (expire_after past the
\* time it was stored) is still ahead.
Entries == [content : Contents, fresh : BOOLEAN]

\* A plausible slip: the expiry is not consulted and every entry is refreshed.
SeshGet_AlwaysRefresh(d, key, net) ==
    LET e == d[key]
        stored == [d EXCEPT ![key] = Some([content |-> net.content, fresh |-> TRUE])]
    IN  IF net.status = 200
        THEN [raised |-> FALSE, status |-> 200, content |-> net.content,
              from_cache |-> FALSE, sent |-> TRUE, disk |-> stored]
        ELSE IF e # None
        THEN [raised |-> FALSE, status |-> 200, content |-> e[1].content,
              from_cache |-> TRUE, sent |-> TRUE, disk |-> d]
        ELSE IF net.status = 0
        THEN [raised |-> TRUE, status |-> 0, content |-> NoContent,
              from_cache |-> FALSE, sent |-> TRUE, disk |-> d]
        ELSE [raised |-> FALSE, status |-> net.status, content |-> NoContent,
              from_cache |-> FALSE, sent |-> TRUE, disk |-> d]

\* CachedSession.get as ss.sesh is configured (a timedelta expire_after,
\* stale_if_error=True, only status 200 is stored): a fresh entry is served without
\* a request; an expired entry is refreshed, and when the refresh does not succeed
\* the expired entry is served instead; with no entry the request is sent, a 200 is
\* stored and a transport failure raises.
SeshGet(d, key, net) ==
    LET e == d[key]
        stored == [d EXCEPT ![key] = Some([content |-> net.content, fresh |-> TRUE])]
    IN  IF e # None /\ e[1].fresh
        THEN [raised |-> FALSE, status |-> 200, content |-> e[1].content,
              from_cache |-> TRUE, sent |-> FALSE, disk |-> d]
        ELSE IF net.status = 200
        THEN [raised |-> FALSE, status |-> 200, content |-> net.content,
              from_cache |-> FALSE, sent |-> TRUE, disk |-> stored]
        ELSE IF e # None
        THEN [raised |-> FALSE, status |-> 200, content |-> e[1].content,
              from_cache |-> TRUE, sent |-> TRUE, disk |-> d]
        ELSE IF net.status = 0
        THEN [raised |-> TRUE, status |-> 0, content |-> NoContent,
              from_cache |-> FALSE, sent |-> TRUE, disk |-> d]
        ELSE [raised |-> FALSE, status |-> net.status, content |-> NoContent,
              from_cache |-> FALSE, sent |-> TRUE, disk |-> d]

\* last_sent is None or (datetime.now() - last_sent) >= __second, in the body of
\* the class _SessionSingleton. A name with two leading underscores inside a class
\* body is mangled, so the method looks up the global _SessionSingleton__second
\* (__minute and __hour alike), which api.py does not define: the comparison
\* raises NameError whenever it is evaluated, that is whenever last_sent is not
\* None, however long ago last_sent is.
Elapsed(ls, window) == IF ls = None THEN "True" ELSE "NameError"

\* _SessionSingleton.set_last_sent: whether it raised, and the counters it
\* leaves. The first comparison that raises ends the method, before any counter
\* or last_sent is assigned.
set_last_sent(ls, rps, rpm, rph) ==
    IF Elapsed(ls, second) = "NameError"
    THEN [raised |-> TRUE, requests_per_second |-> rps, requests_per_minute |-> rpm,
          requests_per_hour |-> rph]
    ELSE [raised |-> FALSE,
          requests_per_second |-> 0,
          requests_per_minute |-> IF Elapsed(ls, minute) = "True" THEN 0 ELSE rpm,
          requests_per_hour   |-> IF Elapsed(ls, hour) = "True" THEN 0 ELSE rph]

\* The longest window a duration covers: what last_sent holds of an age.
Rounded(t) == IF t >= hour THEN hour ELSE IF t >= minute THEN minute
              ELSE IF t >= second THEN second ELSE 0

\* The body of `if not response.from_cache:` in _call_api, from the counters that
\* set_last_sent left: each counter is incremented and compared with its ceiling;
\* at the ceiling the call sleeps for the window or raises, and a raise leaves the
\* later counters as they are.
CountRequest(c, sleeps) ==
    LET rps == c.requests_per_second + 1
        rpm == c.requests_per_minute + 1
        rph == c.requests_per_hour + 1
        s1  == IF rps = RATE_LIMIT_SECOND THEN second ELSE 0
        s2  == IF rpm = RATE_LIMIT_MINUTE THEN minute ELSE 0
        s3  == IF rph = RATE_LIMIT_HOUR THEN hour ELSE 0
    IN  IF rps = RATE_LIMIT_SECOND /\ ~sleeps
        THEN [requests_per_second |-> rps, requests_per_minute |-> c.requests_per_minute,
              requests_per_hour |-> c.requests_per_hour, slept |-> 0,
              time_period |-> "second", max_requests |-> RATE_LIMIT_SECOND]
        ELSE IF rpm = RATE_LIMIT_MINUTE /\ ~sleeps
        THEN [requests_per_second |-> rps, requests_per_minute |-> rpm,
              requests_per_hour |-> c.requests_per_hour, slept |-> s1,
              time_period |-> "minute", max_requests |-> RATE_LIMIT_MINUTE]
        ELSE IF rph = RATE_LIMIT_HOUR /\ ~sleeps
        THEN [requests_per_second |-> rps, requests_per_minute |-> rpm,
              requests_per_hour |-> rph, slept |-> s1 + s2,
              time_period |-> "hour", max_requests |-> RATE_LIMIT_HOUR]
        ELSE [requests_per_second |-> rps, requests_per_minute |-> rpm,
              requests_per_hour |-> rph, slept |-> s1 + s2 + s3,
              time_period |-> "none", max_requests |-> 0]

\* How a call ends, from the response that was obtained.
Outcome(status) ==
    IF status = 404 THEN "NotFoundError"
    ELSE IF status = 200 THEN "value" ELSE "HTTPError"

\* What is observed of one call: how it ended (kind, and content or time_period and
\* max_requests), whether a request went out (sent) and the status that came back,
\* whether the body was skipped (memoized), what response.from_cache was, whether the
\* call got a response that was not from the cache (uncached), whether that
\* request was counted, how long the call slept, and last_sent as the call found
\* it. burst is kept next to it: the number of uncached calls the process has made
\* with less than a second between one and the next.
NoRet == [kind |-> "none", content |-> NoContent, time_period |-> "none",
          max_requests |-> 0, sent |-> FALSE, status |-> 0, from_cache |-> FALSE,
          memoized |-> FALSE, uncached |-> FALSE, counted |-> FALSE, slept |-> 0,
          before |-> None, burst |-> 0]

\* The other two program parts do not move while the client runs, and conversely.
ResourceIdle == res = None /\ rret = None
PhasesIdle == tourney = None /\ phase_event_cache = None /\ pret = None
LadderIdle == lret = None
ParseIdle == roster = None /\ cret = None
ThreadsIdle == cls_instance = None /\ objects = None /\ pc = None /\ local = None
ClientIdle ==
    /\ sleep_on_rate_limit = TRUE /\ last_sent = None
    /\ requests_per_second = 0 /\ requests_per_minute = 0 /\ requests_per_hour = 0
    /\ memo = None /\ disk = None /\ ret = None

\* _SessionSingleton.__init__ in a process that finds an empty cache directory.
Init ==
    /\ sleep_on_rate_limit \in BOOLEAN
    /\ last_sent = None
    /\ requests_per_second = 0
    /\ requests_per_minute = 0
    /\ requests_per_hour = 0
    /\ memo = [r \in Requests |-> None]
    /\ disk = [k \in Keys |-> None]
    /\ ret = NoRet
    /\ ResourceIdle /\ PhasesIdle /\ LadderIdle /\ ParseIdle /\ ThreadsIdle

\* call_api(url, params) -> _call_api: one whole call, with the network's answer
\* net to the request it may send.
CallApi(req, net) ==
    /\ LET r == NoRet
       IN
       IF memo[req] # None
       THEN \* functools.cache returns the remembered bytes; the body does not run
            /\ ret' = [r EXCEPT !.kind = "value", !.content = memo[req][1],
                                !.memoized = TRUE, !.burst = ret.burst]
            /\ UNCHANGED <<last_sent, requests_per_second, requests_per_minute,
                           requests_per_hour, memo, disk>>
       ELSE
       LET g == SeshGet(disk, create_key(req), net)
           uncached == ~g.raised /\ ~g.from_cache
           s == set_last_sent(last_sent, requests_per_second, requests_per_minute,
                              requests_per_hour)
           c == CountRequest(s, sleep_on_rate_limit)
           counted == uncached /\ ~s.raised
           kind == IF g.raised THEN "ConnectionError"
                   ELSE IF uncached /\ s.raised THEN "NameError"
                   ELSE IF counted /\ c.time_period # "none" THEN "RateLimitError"
                   ELSE Outcome(g.status)
       IN  /\ disk' = g.disk
           /\ IF counted
              THEN /\ last_sent' = Some(Rounded(c.slept))
                   /\ requests_per_second' = c.requests_per_second
                   /\ requests_per_minute' = c.requests_per_minute
                   /\ requests_per_hour' = c.requests_per_hour
              ELSE UNCHANGED <<last_sent, requests_per_second, requests_per_minute,
                               requests_per_hour>>
           /\ memo' = IF kind = "value" THEN [memo EXCEPT ![req] = Some(g.content)]
                      ELSE memo
           /\ ret' = [r EXCEPT
                        !.kind = kind,
                        !.content = IF kind = "value" THEN g.content ELSE NoContent,
                        !.time_period = IF kind = "RateLimitError" THEN c.time_period
                                        ELSE "none",
                        !.max_requests = IF kind = "RateLimitError" THEN c.max_requests
                                         ELSE 0,
                        !.sent = g.sent,
                        !.status = IF g.sent THEN net.status ELSE 0,
                        !.from_cache = g.from_cache,
                        !.uncached = uncached,
                        !.counted = counted,
                        !.slept = IF counted THEN c.slept ELSE 0,
                        !.before = IF uncached THEN last_sent ELSE None,
                        !.burst = IF uncached THEN ret.burst + 1 ELSE ret.burst]
    /\ UNCHANGED <<sleep_on_rate_limit, resourceVars, phaseVars,
                   ladderVars, parseVars, threadVars>>

\* Time passes between calls: datetime.now() - last_sent comes to cover the window
\* t, and the entries of the keys in E reach their expiry.
TimePasses(t, E) ==
    /\ last_sent = None => t = 0
    /\ last_sent # None => t >= last_sent[1]
    /\ \A k \in E : disk[k] # None /\ disk[k][1].fresh
    /\ E # {} \/ (last_sent # None /\ t > last_sent[1])
    /\ last_sent' = IF last_sent = None THEN None ELSE Some(t)
    /\ disk' = [k \in Keys |-> IF k \in E THEN Some([disk[k][1] EXCEPT !.fresh = FALSE])
                               ELSE disk[k]]
    /\ ret' = IF t >= second THEN [ret EXCEPT !.burst = 0] ELSE ret
    /\ UNCHANGED <<sleep_on_rate_limit, requests_per_second, requests_per_minute,
                   requests_per_hour, memo, resourceVars, phaseVars,
                   ladderVars, parseVars, threadVars>>

\* The process ends and a new one starts: the cache directory stays, the
\* singleton and the functools.cache of _call_api start anew.
Restart ==
    /\ sleep_on_rate_limit' \in BOOLEAN
    /\ last_sent' = None
    /\ requests_per_second' = 0
    /\ requests_per_minute' = 0
    /\ requests_per_hour' = 0
    /\ memo' = [r \in Requests |-> None]
    /\ ret' = NoRet
    /\ UNCHANGED <<disk, resourceVars, phaseVars,
                   ladderVars, parseVars, threadVars>>

\* The bound on the calls: no more than n uncached calls are made in one burst.
Budget(n) == ret.burst < n

\* The rate budget at work: calls of one request.
Next ==
    \/ \E req \in {PlainRequest}, net \in NetOutcomes : Budget(MaxCount) /\ CallApi(req, net)
    \/ \E t \in {0, second, minute, hour}, E \in SUBSET Keys : TimePasses(t, E)
    \/ Restart

Spec == Init /\ [][Next]_vars

\* The cache at work: calls of the requests with parameters, few of them counted
\* in one window.
NextCache ==
    \/ \E req \in ParamRequests, net \in NetOutcomes : Budget(MaxCacheCount) /\ CallApi(req, net)
    \/ \E t \in {0, second, minute, hour}, E \in SUBSET Keys : TimePasses(t, E)
    \/ Restart

SpecCache == Init /\ [][NextCache]_vars

(***************************************************************************)
(*              ausmash/resource.py: the lazy resource proxy               *)
(***************************************************************************)

\* Bound: the number of fetches one instance is let to make.
MaxFetches == 3

\* The keys a field map may hold: the identifier, the direct link, the mark that
\* _complete puts on what it fetched, and two ordinary fields.
Fields == {"ID", "APILink", "is_complete", "X", "Y"}
\* The keys the server may send.
ServerFields == Fields \ {"is_complete"}

\* What call_api_json gives _complete: the complete representation (its keys; an
\* empty one is falsy), or one of the errors of _call_api.
FetchOutcomes ==
    {[kind |-> "value", fields |-> F] : F \in SUBSET ServerFields}
        \cup {[kind |-> k, fields |-> {}] : k \in {"NotFoundError", "HTTPError"}}

\* Resource._complete, the body under cached_property, run on the field map data
\* with the answer out to the fetch it may make: how it ends, whether it called
\* call_api_json, and the field map of the instance it returns.
Complete(data, out) ==
    IF "is_complete" \in data
    THEN [kind |-> "NotImplementedError", fetched |-> FALSE, fields |-> {}]
    ELSE IF "APILink" \in data \/ "ID" \in data
    THEN IF out.kind # "value"
         THEN [kind |-> out.kind, fetched |-> TRUE, fields |-> {}]
         ELSE IF out.fields # {}
         THEN [kind |-> "value", fetched |-> TRUE,
               fields |-> out.fields \cup {"is_complete"}]
         ELSE [kind |-> "NotImplementedError", fetched |-> TRUE, fields |-> {}]
    ELSE [kind |-> "NotImplementedError", fetched |-> FALSE, fields |-> {}]

\* __getitem__ of the instance that _complete returned: its field map carries
\* is_complete, so a missing key ends in the KeyError of that instance.
CompleteGetItem(fields, name) ==
    IF name \in fields THEN "value" ELSE "KeyError"

\* A plausible slip: cached_property is left out, _complete runs on every miss.
getitem_NoMemo(r, name, out) ==
    IF name \in r.data
    THEN [kind |-> "value", fetched |-> FALSE, complete |-> r.complete]
    ELSE LET c == Complete(r.data, out)
         IN  [kind |-> IF c.kind = "value" THEN CompleteGetItem(c.fields, name)
                       ELSE IF c.kind \in {"NotImplementedError", "NotFoundError"}
                       THEN "KeyError" ELSE c.kind,
              fetched |-> c.fetched, complete |-> None]

\* A plausible slip: NotFoundError is missing from the except clause.
getitem_NotFoundEscapes(r, name, out) ==
    IF name \in r.data
    THEN [kind |-> "value", fetched |-> FALSE, complete |-> r.complete]
    ELSE IF r.complete # None
    THEN [kind |-> CompleteGetItem(r.complete[1], name), fetched |-> FALSE,
          complete |-> r.complete]
    ELSE LET c == Complete(r.data, out)
         IN  [kind |-> IF c.kind = "value" THEN CompleteGetItem(c.fields, name)
                       ELSE IF c.kind = "NotImplementedError" THEN "KeyError"
                       ELSE c.kind,
              fetched |-> c.fetched,
              complete |-> IF c.kind = "value" THEN Some(c.fields) ELSE None]

\* Resource.__getitem__ on the instance r = [data, complete], complete being what
\* cached_property holds of _complete (None until _complete has returned): the key
\* is looked up in _data, then in self._complete; NotImplementedError and
\* NotFoundError become the KeyError of the first lookup, other errors pass.
getitem(r, name, out) ==
    IF name \in r.data
    THEN [kind |-> "value", fetched |-> FALSE, complete |-> r.complete]
    ELSE IF r.complete # None
    THEN [kind |-> CompleteGetItem(r.complete[1], name), fetched |-> FALSE,
          complete |-> r.complete]
    ELSE LET c == Complete(r.data, out)
         IN  [kind |-> IF c.kind = "value" THEN CompleteGetItem(c.fields, name)
                       ELSE IF c.kind \in {"NotImplementedError", "NotFoundError"}
                       THEN "KeyError" ELSE c.kind,
              fetched |-> c.fetched,
              complete |-> IF c.kind = "value" THEN Some(c.fields) ELSE None]

\* DictWrapper.get: self[key], and the default on KeyError.
get(r, name, out) ==
    LET g == getitem(r, name, out)
    IN  [g EXCEPT !.kind = IF g.kind = "KeyError" THEN "default" ELSE g.kind]

\* Resource.__init__ with a field map (an int gives the map {"ID"}): nothing is
\* fetched. fetches counts the calls of call_api_json the instance has made and
\* resolved tells that one of them returned the complete representation; rret
\* holds the latest read: the key, how it ended, whether it fetched and the answer.
InitResource ==
    /\ \E data \in SUBSET Fields :
          res = [data |-> data, complete |-> None, fetches |-> 0, resolved |-> FALSE]
    /\ rret = [op |-> "none", name |-> "ID", kind |-> "none", fetched |-> FALSE,
               answer |-> "none"]
    /\ ClientIdle /\ PhasesIdle /\ LadderIdle /\ ParseIdle /\ ThreadsIdle

\* One field read, r[name] (op "getitem") or r.get(name) (op "get").
Read(op, name, out) ==
    /\ res.fetches < MaxFetches
    /\ LET g == IF op = "get" THEN get(res, name, out) ELSE getitem(res, name, out)
       IN  /\ res' = [res EXCEPT
                        !.complete = g.complete,
                        !.fetches = IF g.fetched THEN @ + 1 ELSE @,
                        !.resolved = @ \/ (g.fetched /\ out.kind = "value"
                                            /\ out.fields # {})]
           /\ rret' = [op |-> op, name |-> name, kind |-> g.kind, fetched |-> g.fetched,
                       answer |-> IF ~g.fetched THEN "none"
                                  ELSE IF out.kind = "value" /\ out.fields = {}
                                  THEN "empty" ELSE out.kind]
    /\ UNCHANGED <<clientVars, phaseVars,
                   ladderVars, parseVars, threadVars>>

NextResource ==
    \E op \in {"getitem", "get"}, name \in Fields, out \in FetchOutcomes :
        Read(op, name, out)

SpecResource == InitResource /\ [][NextResource]_vars

(***************************************************************************)
(*        ausmash/models/tournament.py: the bracket topology resolver      *)
(***************************************************************************)

\* Bound: the number of player names that occur in the results of a tournament.
MaxPlayers == 2

Players == 1 .. MaxPlayers
\* The places of the events in Tournament.events (enumerate starts at 0 in the
\* code; only the order matters). An event's ID stands for its place.
EventIndices == 1 .. 3

\* What __other_phase_for_event reads of an event: Event.game, Event.type,
\* Event.is_side_bracket, Event.is_redemption_bracket, and the player_name of each
\* result of Result.results_for_event(event).
EventKinds ==
    {[game |-> "SSBU", type |-> "Singles", side |-> FALSE, redemption |-> FALSE],
     [game |-> "SSBM", type |-> "Singles", side |-> FALSE, redemption |-> FALSE],
     [game |-> "SSBU", type |-> "Teams",   side |-> FALSE, redemption |-> FALSE],
     [game |-> "SSBU", type |-> "Singles", side |-> TRUE,  redemption |-> FALSE],
     [game |-> "SSBU", type |-> "Singles", side |-> FALSE, redemption |-> TRUE]}
Events == [kind : EventKinds, results : SUBSET Players]

\* max / min over (event, index) pairs by index
MaxOf(S) == CHOOSE i \in S : \A j \in S : j <= i
MinOf(S) == CHOOSE i \in S : \A j \in S : i <= j

\* A plausible slip: the players of the candidates are not looked at.
potential_events_AnyPlayers(t, e, previous) ==
    {i \in DOMAIN t :
        /\ IF previous THEN i < e ELSE i > e
        /\ t[e].kind.game = t[i].kind.game
        /\ t[e].kind.type = t[i].kind.type
        /\ t[e].kind.side = t[i].kind.side
        /\ t[e].kind.redemption = t[i].kind.redemption}

\* A plausible slip: a next phase has to hold every player of e, as a previous
\* phase has to.
potential_events_HoldsAll(t, e, previous) ==
    {i \in DOMAIN t :
        /\ IF previous THEN i < e ELSE i > e
        /\ t[e].kind.game = t[i].kind.game
        /\ t[e].kind.type = t[i].kind.type
        /\ t[e].kind.side = t[i].kind.side
        /\ t[e].kind.redemption = t[i].kind.redemption
        /\ t[i].results # {} /\ t[e].results \subseteq t[i].results}

\* The candidates of __other_phase_for_event: potential_events_and_indexes.
\* all_players_are_in_event(event): the event has results and every player of e is
\* among them; all_event_players_are_in_this_event(event): every player of the
\* event is among those of e.
potential_events(t, e, previous) ==
    {i \in DOMAIN t :
        /\ IF previous THEN i < e ELSE i > e
        /\ t[e].kind.game = t[i].kind.game
        /\ t[e].kind.type = t[i].kind.type
        /\ t[e].kind.side = t[i].kind.side
        /\ t[e].kind.redemption = t[i].kind.redemption
        /\ IF previous
           THEN t[i].results # {} /\ t[e].results \subseteq t[i].results
           ELSE t[i].results \subseteq t[e].results}

\* A plausible slip: min and max exchanged.
other_phase_for_event_Farthest(t, e, previous) ==
    IF t[e].results = {} THEN None
    ELSE LET potential == potential_events(t, e, previous)
         IN  IF potential = {} THEN None
             ELSE IF previous THEN Some(MinOf(potential))
             ELSE Some(MaxOf(potential))

\* Tournament.__other_phase_for_event, what it computes on a miss of its cache:
\* None for an event without results, else the closest candidate.
other_phase_for_event(t, e, previous) ==
    IF t[e].results = {} THEN None
    ELSE LET potential == potential_events(t, e, previous)
         IN  IF potential = {} THEN None
             ELSE IF previous THEN Some(MaxOf(potential))
             ELSE Some(MinOf(potential))

next_phase_for_event(t, e) == other_phase_for_event(t, e, FALSE)
previous_phase_for_event(t, e) == other_phase_for_event(t, e, TRUE)

RECURSIVE start_phase_for_event(_, _)
start_phase_for_event(t, e) ==
    LET prev == previous_phase_for_event(t, e)
    IN  IF prev = None THEN e ELSE start_phase_for_event(t, prev[1])

\* A plausible slip: the next phase is returned without following it further.
final_phase_for_event_OneStep(t, e) ==
    LET next == next_phase_for_event(t, e)
    IN  IF next = None THEN e ELSE next[1]

RECURSIVE final_phase_for_event(_, _)
final_phase_for_event(t, e) ==
    LET next == next_phase_for_event(t, e)
    IN  IF next = None THEN e ELSE final_phase_for_event(t, next[1])

\* The event whose phase the last call of __other_phase_for_event computed, for
\* the calls that start_phase_for_event / final_phase_for_event chain.
RECURSIVE LastAsked(_, _, _)
LastAsked(t, e, previous) ==
    LET o == other_phase_for_event(t, e, previous)
    IN  IF o = None THEN e ELSE LastAsked(t, o[1], previous)

\* Result.number_of_entrants of a result of the event at place e: the Entrants
\* field when the result has one that is not 0 (results_for_event sets it to the
\* length of the response), else the length of results_for_event(event).
number_of_entrants(t, e, entrants) ==
    IF entrants # None /\ entrants[1] # 0 THEN entrants[1]
    ELSE Cardinality(t[e].results)

\* A plausible slip: the count of the result's own phase is returned.
total_entrants_OwnPhase(t, e, entrants) == number_of_entrants(t, e, entrants)

\* Result.total_entrants: with a previous phase, the number of results of the
\* start phase of that previous phase; without one, number_of_entrants.
total_entrants(t, e, entrants) ==
    LET prev_phase == previous_phase_for_event(t, e)
    IN  IF prev_phase # None
        THEN Cardinality(t[start_phase_for_event(t, prev_phase[1])].results)
        ELSE number_of_entrants(t, e, entrants)

\* A Tournament as /tourneys/{id} describes it; no phase has been asked for.
InitPhases ==
    /\ tourney \in [EventIndices -> Events]
    /\ phase_event_cache = << >>
    /\ pret = [op |-> "none", e |-> 1, result |-> None, computed |-> FALSE]
    /\ ClientIdle /\ ResourceIdle /\ LadderIdle /\ ParseIdle /\ ThreadsIdle

\* hasattr(self, '__phase_event_cache') looks for the unmangled name, which
\* DictWrapper.__getattr__ refuses (it starts with '__'), so every call of
\* __other_phase_for_event begins with an empty cache and leaves the one pair it
\* computed.
CacheAfter(e, previous) ==
    [k \in {<<e, previous>>} |-> other_phase_for_event(tourney, e, previous)]

\* hasattr(self, '__phase_event_cache'): the string is not mangled, the attribute
\* the method assigns is _Tournament__phase_event_cache, and
\* DictWrapper.__getattr__ raises AttributeError for a name that starts with '__'.
hasattr_phase_event_cache == FALSE

\* "cached is not ...": the dictionary the call looks into has the pair.
Cached(e, previous) ==
    hasattr_phase_event_cache /\ <<e, previous>> \in DOMAIN phase_event_cache

\* One call of a phase method for the event at place e.
Ask(op, e) ==
    /\ pret' = [op |-> op, e |-> e,
                result |-> CASE op = "previous_phase" -> previous_phase_for_event(tourney, e)
                             [] op = "next_phase" -> next_phase_for_event(tourney, e)
                             [] op = "start_phase" -> Some(start_phase_for_event(tourney, e))
                             [] op = "final_phase" -> Some(final_phase_for_event(tourney, e)),
                computed |-> ~Cached(e, op \in {"previous_phase", "start_phase"})]
    /\ phase_event_cache' =
          CASE op = "previous_phase" -> CacheAfter(e, TRUE)
            [] op = "next_phase" -> CacheAfter(e, FALSE)
            [] op = "start_phase" -> CacheAfter(LastAsked(tourney, e, TRUE), TRUE)
            [] op = "final_phase" -> CacheAfter(LastAsked(tourney, e, FALSE), FALSE)
    /\ UNCHANGED <<tourney, clientVars, resourceVars,
                   ladderVars, parseVars, threadVars>>

\* total_entrants of a result of the event at place e. The result came from
\* Result.results_for_event (it carries Entrants) or from another listing such as
\* results_for_player (it does not). Result.tournament wraps the Tourney field in
\* a new Tournament each time, so the phase cache of tourney is not touched.
TotalEntrants(e, from_event) ==
    /\ tourney[e].results # {}
    /\ LET entrants == IF from_event THEN Some(Cardinality(tourney[e].results))
                        ELSE None
       IN  pret' = [op |-> "total_entrants", e |-> e,
                    result |-> Some(total_entrants(tourney, e, entrants)),
                    computed |-> TRUE]
    /\ UNCHANGED <<tourney, phase_event_cache, clientVars, resourceVars,
                   ladderVars, parseVars, threadVars>>

NextPhases ==
    \E op \in {"previous_phase", "next_phase", "start_phase", "final_phase"},
       e \in EventIndices : Ask(op, e)

SpecPhases == InitPhases /\ [][NextPhases]_vars

\* The entrant counts of the results of a tournament.
NextEntrants ==
    \E e \in EventIndices, from_event \in BOOLEAN : TotalEntrants(e, from_event)

SpecEntrants == InitPhases /\ [][NextEntrants]_vars

(***************************************************************************)
(*            ausmash/models/result.py: the placing ladder                 *)
(***************************************************************************)

\* The placings and seeds tried.
MaxPlacing == 26

\* 2 ** n for n in range(1, 16)
normalized_elimination_bracket_sizes == [n \in 1 .. 15 |-> 2 ^ n]

\* (1, 2, then n + 1 and int(n * 1.5) + 1 for each bracket size n); n is even, so
\* int(n * 1.5) is 3n / 2.
possible_placings ==
    <<1, 2>> \o [i \in 1 .. 2 * Len(normalized_elimination_bracket_sizes) |->
                   LET n == normalized_elimination_bracket_sizes[(i + 1) \div 2]
                   IN  IF i % 2 = 1 THEN n + 1 ELSE (n * 3) \div 2 + 1]

\* bisect.bisect_left, the loop of the library with lo and hi counted from 0.
RECURSIVE bisect_left_loop(_, _, _, _)
bisect_left_loop(a, x, lo, hi) ==
    IF lo < hi
    THEN LET mid == (lo + hi) \div 2
         IN  IF a[mid + 1] < x THEN bisect_left_loop(a, x, mid + 1, hi)
             ELSE bisect_left_loop(a, x, lo, mid)
    ELSE lo

\* A plausible slip: bisect_left is imported in place of bisect_right.
bisect_right_Left(a, x) == bisect_left_loop(a, x, 0, Len(a))

\* bisect.bisect_right, the loop of the library with lo and hi counted from 0.
RECURSIVE bisect_right_loop(_, _, _, _)
bisect_right_loop(a, x, lo, hi) ==
    IF lo < hi
    THEN LET mid == (lo + hi) \div 2
         IN  IF x < a[mid + 1] THEN bisect_right_loop(a, x, lo, mid)
             ELSE bisect_right_loop(a, x, mid + 1, hi)
    ELSE lo

bisect_right(a, x) == bisect_right_loop(a, x, 0, Len(a))

\* A plausible slip: the - 1 is forgotten.
rounds_from_victory_NoOffset(result) == bisect_right(possible_placings, result)

rounds_from_victory(result) == bisect_right(possible_placings, result) - 1

\* Result.seed_performance_rating. seed is seeds[self.player], or None when the
\* result has no player, the event has no seeds, or the player is not seeded;
\* real_placing is the placing compared with it.
seed_performance_rating(seed, real_placing) ==
    IF seed = None THEN None
    ELSE Some(rounds_from_victory(seed[1]) - rounds_from_victory(real_placing))

\* No rating has been asked for yet.
InitLadder ==
    /\ lret = [op |-> "none", seed |-> None, real_placing |-> 1, seed_rounds |-> None,
               placing_rounds |-> 0, rating |-> None]
    /\ ClientIdle /\ ResourceIdle /\ PhasesIdle /\ ParseIdle /\ ThreadsIdle

\* One call of seed_performance_rating; the two values of rounds_from_victory it
\* computed are kept next to its answer.
SeedPerformanceRating(seed, real_placing) ==
    /\ lret' = [op |-> "seed_performance_rating", seed |-> seed,
                real_placing |-> real_placing,
                seed_rounds |-> IF seed = None THEN None
                                ELSE Some(rounds_from_victory(seed[1])),
                placing_rounds |-> rounds_from_victory(real_placing),
                rating |-> seed_performance_rating(seed, real_placing)]
    /\ UNCHANGED <<clientVars, resourceVars, phaseVars, parseVars, threadVars>>

NextLadder ==
    \E seed \in {None} \cup {Some(p) : p \in 1 .. MaxPlacing},
       real_placing \in 1 .. MaxPlacing : SeedPerformanceRating(seed, real_placing)

SpecLadder == InitLadder /\ [][NextLadder]_vars

(***************************************************************************)
(*          ausmash/classes/character.py: Character.parse                  *)
(***************************************************************************)

\* A name is a sequence of words and separators, written without '.'.
\* str.casefold on a word, and the separators &, / and + turned into the word and
\* (the regular expression also takes the blanks around them).
Fold(tok) ==
    CASE tok = "Fox" -> "fox"
      [] tok = "Falco" -> "falco"
      [] tok = "Birds" -> "birds"
      [] tok = "Nobody" -> "nobody"
      [] tok \in {"&", "/", "+"} -> "and"
      [] OTHER -> tok

\* Character._normalize_name
normalize_name(name) == [i \in DOMAIN name |-> Fold(name[i])]

\* name.split(' and ')
RECURSIVE split_and(_)
split_and(name) ==
    IF \E i \in DOMAIN name : name[i] = "and"
    THEN LET i == CHOOSE i \in DOMAIN name :
                     name[i] = "and" /\ \A j \in 1 .. i - 1 : name[j] # "and"
         IN  <<SubSeq(name, 1, i - 1)>> \o split_and(SubSeq(name, i + 1, Len(name)))
    ELSE <<name>>

\* The characters a game may have: Name; abbrev_name, full_name and other_names
\* together; character_groups and echo_fighter_group together; fighter_number (0
\* for none).
CharNames == {<<"Fox">>, <<"Falco">>, <<"Fox", "/", "Falco">>}
CharPool ==
    [name : CharNames, other_names : {{}, {<<"Birds">>}},
     groups : {{}, {<<"Birds">>}}, fighter_number : {0, 1}]
Rosters ==
    {R \in SUBSET CharPool : \A c, d \in R : c.name = d.name => c = d}

\* The names asked for.
QueryNames ==
    {<<"Fox">>, <<"fox">>, <<"Falco">>, <<"Birds">>, <<"birds">>, <<"#1">>, <<"Nobody">>,
     <<"Fox", "&", "Falco">>, <<"fox", "and", "falco">>, <<"Fox", "/", "Falco">>,
     <<"Fox", "+", "Nobody">>}

\* Character._extra_info_matches, name being normalized already
extra_info_matches(c, name) ==
    \/ name \in {normalize_name(c.name)} \cup {normalize_name(n) : n \in c.other_names}
    \/ name = <<"#1">> /\ c.fighter_number = 1

FoundCharacter(c) == [kind |-> "Character", name |-> c.name, chars |-> {c.name}]
FoundGroup(name, group) == [kind |-> "CombinedCharacter", name |-> name, chars |-> group]
NotFound(orig_name, error_if_not_found) ==
    [kind |-> IF error_if_not_found THEN "KeyError" ELSE "None", name |-> orig_name,
     chars |-> {}]

\* A plausible slip: the groups are looked up before the individual characters.
RECURSIVE parse_GroupsFirst(_, _, _, _, _)
parse_GroupsFirst(chars, orig_name, use_extra_info, return_groups, error_if_not_found) ==
    LET name == normalize_name(orig_name)
        named == {g \in UNION {c.groups : c \in chars} : normalize_name(g) = name}
        matching == {c \in chars : IF use_extra_info THEN extra_info_matches(c, name)
                                    ELSE normalize_name(c.name) = name}
    IN  IF use_extra_info /\ return_groups /\ named # {}
        THEN {FoundGroup(g, {c.name : c \in {d \in chars : g \in d.groups}}) : g \in named}
        ELSE IF matching # {} THEN {FoundCharacter(c) : c \in matching}
        ELSE {NotFound(orig_name, error_if_not_found)}

\* Character.parse: the results it may give (chars is a set, and so is walked in
\* no fixed order: with several matches any of them may be the one returned).
RECURSIVE parse(_, _, _, _, _)
parse(chars, orig_name, use_extra_info, return_groups, error_if_not_found) ==
    LET name == normalize_name(orig_name)
    IN  IF ~use_extra_info
        THEN LET matching == {c \in chars : normalize_name(c.name) = name}
             IN  IF matching = {} THEN {NotFound(orig_name, error_if_not_found)}
                 ELSE {FoundCharacter(c) : c \in matching}
        ELSE
        LET matching == {c \in chars : extra_info_matches(c, name)}
            named == {g \in UNION {c.groups : c \in chars} : normalize_name(g) = name}
            parts == split_and(name)
            each == [i \in DOMAIN parts |-> parse(chars, parts[i], TRUE, FALSE, TRUE)]
            picks == {f \in [DOMAIN parts -> UNION {each[i] : i \in DOMAIN parts}] :
                         \A i \in DOMAIN parts : f[i] \in each[i]}
        IN  IF matching # {} THEN {FoundCharacter(c) : c \in matching}
            ELSE IF return_groups /\ named # {}
            THEN {FoundGroup(g, {c.name : c \in {d \in chars : g \in d.groups}}) :
                     g \in named}
            ELSE IF return_groups /\ Len(parts) > 1
                    /\ \A i \in DOMAIN parts : \A r \in each[i] : r.kind # "KeyError"
            THEN {FoundGroup(orig_name, {f[i].name : i \in DOMAIN parts}) : f \in picks}
            ELSE {NotFound(orig_name, error_if_not_found)}

\* The characters of the game as characters/bygame/{id} lists them; nothing has
\* been parsed yet.
InitParse ==
    /\ roster \in Rosters
    /\ cret = [name |-> <<>>, use_extra_info |-> FALSE, return_groups |-> FALSE,
               error_if_not_found |-> FALSE,
               result |-> [kind |-> "none", name |-> <<>>, chars |-> {}]]
    /\ ClientIdle /\ ResourceIdle /\ PhasesIdle /\ LadderIdle /\ ThreadsIdle

\* One call of Character.parse(game, name, ...).
Parse(name, use_extra_info, return_groups, error_if_not_found) ==
    /\ \E r \in parse(roster, name, use_extra_info, return_groups, error_if_not_found) :
          cret' = [name |-> name, use_extra_info |-> use_extra_info,
                   return_groups |-> return_groups,
                   error_if_not_found |-> error_if_not_found, result |-> r]
    /\ UNCHANGED <<roster, clientVars, resourceVars, phaseVars, ladderVars, threadVars>>

NextParse ==
    \E name \in QueryNames, use_extra_info \in BOOLEAN, return_groups \in BOOLEAN,
       error_if_not_found \in BOOLEAN :
        Parse(name, use_extra_info, return_groups, error_if_not_found)

SpecParse == InitParse /\ [][NextParse]_vars

(***************************************************************************)
(*        ausmash/api.py: the client called from several threads           *)
(***************************************************************************)

\* The threads, each making one call of _call_api (a first call of the process
\* for all of them); the interpreter may switch threads between any two of the
\* steps below, and x += 1 on an attribute is a load, an add and a store.
MaxThreads == 2
Threads == 1 .. MaxThreads

\* The windows in the order _call_api counts them, their lengths and ceilings.
Windows == 1 .. 3
WindowLength == <<second, minute, hour>>
Ceiling == <<RATE_LIMIT_SECOND, RATE_LIMIT_MINUTE, RATE_LIMIT_HOUR>>

\* An object fresh from object.__new__: none of its attributes is set (None; a set
\* attribute is Some(value)). sesh counts the sessions made for the object and
\* resets the times a counter that was not 0 was set to 0: both are bookkeeping.
NewObject ==
    [inited |-> None, sesh |-> None, last_sent |-> None,
     requests |-> [w \in Windows |-> None], resets |-> 0]

NoLocal ==
    [ss |-> None, last_sent |-> None, tmp |-> 0, w |-> 1, from_cache |-> None,
     error |-> "none"]

\* A duration d passes over a time stamp.
Age(ls, d) == IF ls = None THEN None ELSE Some(IF ls[1] >= d THEN ls[1] ELSE d)

InitThreads ==
    /\ cls_instance = None
    /\ objects = << >>
    /\ pc = [t \in Threads |-> "new_check"]
    /\ local = [t \in Threads |-> NoLocal]
    /\ sleep_on_rate_limit \in BOOLEAN
    /\ last_sent = None
    /\ requests_per_second = 0 /\ requests_per_minute = 0 /\ requests_per_hour = 0
    /\ memo = None /\ disk = None /\ ret = None
    /\ ResourceIdle /\ PhasesIdle /\ LadderIdle /\ ParseIdle

Obj(t) == objects[local[t].ss[1]]
Goto(t, label) == pc' = [pc EXCEPT ![t] = label]
Raise(t, e) ==
    /\ pc' = [pc EXCEPT ![t] = "done"]
    /\ local' = [local EXCEPT ![t].error = e]
\* The counter of window w of object i is set to v.
SetRequests(i, w, v) ==
    objects' = [objects EXCEPT
                  ![i].requests[w] = Some(v),
                  ![i].resets = IF v = 0 /\ objects[i].requests[w] # None
                                         /\ objects[i].requests[w] # Some(0)
                                THEN @ + 1 ELSE @]
NextWindow(t, again, after) ==
    IF local[t].w = 3
    THEN /\ Goto(t, after)
         /\ local' = [local EXCEPT ![t].w = 1]
    ELSE /\ Goto(t, again)
         /\ local' = [local EXCEPT ![t].w = @ + 1]

\* The rest of the program does not move while the threads run.
ThreadFrame == UNCHANGED <<clientVars, resourceVars, phaseVars, ladderVars, parseVars>>

\* __new__: if not cls.__instance
NewCheck(t) ==
    /\ pc[t] = "new_check"
    /\ Goto(t, IF cls_instance = None THEN "new_create" ELSE "new_return")
    /\ UNCHANGED <<cls_instance, objects, local>>
    /\ ThreadFrame

\* __new__: cls.__instance = super().__new__(cls)
NewCreate(t) ==
    /\ pc[t] = "new_create"
    /\ objects' = Append(objects, NewObject)
    /\ cls_instance' = Some(Len(objects) + 1)
    /\ Goto(t, "new_inited")
    /\ UNCHANGED local
    /\ ThreadFrame

\* __new__: cls.__instance._inited = False
NewInited(t) ==
    /\ pc[t] = "new_inited"
    /\ objects' = [objects EXCEPT ![cls_instance[1]].inited = Some(FALSE)]
    /\ Goto(t, "new_return")
    /\ UNCHANGED <<cls_instance, local>>
    /\ ThreadFrame

\* __new__: return cls.__instance
NewReturn(t) ==
    /\ pc[t] = "new_return"
    /\ local' = [local EXCEPT ![t].ss = cls_instance]
    /\ Goto(t, "init_check")
    /\ UNCHANGED <<cls_instance, objects>>
    /\ ThreadFrame

\* __init__: if self._inited: return
InitCheck(t) ==
    /\ pc[t] = "init_check"
    /\ IF Obj(t).inited = None THEN Raise(t, "AttributeError")
       ELSE /\ Goto(t, IF Obj(t).inited[1] THEN "get" ELSE "init_set")
            /\ UNCHANGED local
    /\ UNCHANGED <<cls_instance, objects>>
    /\ ThreadFrame

\* __init__: self._inited = True
InitSet(t) ==
    /\ pc[t] = "init_set"
    /\ objects' = [objects EXCEPT ![local[t].ss[1]].inited = Some(TRUE)]
    /\ Goto(t, "init_sesh")
    /\ UNCHANGED <<cls_instance, local>>
    /\ ThreadFrame

\* __init__: self.sesh = CachedSession(...)
InitSesh(t) ==
    /\ pc[t] = "init_sesh"
    /\ objects' = [objects EXCEPT ![local[t].ss[1]].sesh =
                      Some(IF @ = None THEN 1 ELSE @[1] + 1)]
    /\ Goto(t, "init_last_sent")
    /\ UNCHANGED <<cls_instance, local>>
    /\ ThreadFrame

\* __init__: self.last_sent = None
InitLastSent(t) ==
    /\ pc[t] = "init_last_sent"
    /\ objects' = [objects EXCEPT ![local[t].ss[1]].last_sent = Some(None)]
    /\ Goto(t, "init_requests")
    /\ UNCHANGED <<cls_instance, local>>
    /\ ThreadFrame

\* __init__: self.requests_per_second = 0, then _per_minute, then _per_hour
InitRequests(t) ==
    /\ pc[t] = "init_requests"
    /\ SetRequests(local[t].ss[1], local[t].w, 0)
    /\ NextWindow(t, "init_requests", "get")
    /\ UNCHANGED cls_instance
    /\ ThreadFrame

\* _call_api: response = ss.sesh.get(...); if not response.from_cache
Get(t) ==
    /\ pc[t] = "get"
    /\ IF Obj(t).sesh = None THEN Raise(t, "AttributeError")
       ELSE \E from_cache \in BOOLEAN :
               /\ local' = [local EXCEPT ![t].from_cache = Some(from_cache)]
               /\ Goto(t, IF from_cache THEN "done" ELSE "sls_read")
    /\ UNCHANGED <<cls_instance, objects>>
    /\ ThreadFrame

\* set_last_sent: last_sent = self.last_sent
SlsRead(t) ==
    /\ pc[t] = "sls_read"
    /\ IF Obj(t).last_sent = None THEN Raise(t, "AttributeError")
       ELSE /\ local' = [local EXCEPT ![t].last_sent = Obj(t).last_sent[1]]
            /\ Goto(t, "sls_reset")
    /\ UNCHANGED <<cls_instance, objects>>
    /\ ThreadFrame

\* set_last_sent: if last_sent is None or (now - last_sent) >= window: counter = 0,
\* for the second, the minute, the hour
SlsReset(t) ==
    /\ pc[t] = "sls_reset"
    /\ IF Elapsed(local[t].last_sent, WindowLength[local[t].w]) = "NameError"
       THEN Raise(t, "NameError") /\ UNCHANGED objects
       ELSE /\ SetRequests(local[t].ss[1], local[t].w, 0)
            /\ NextWindow(t, "sls_reset", "sls_store")
    /\ UNCHANGED cls_instance
    /\ ThreadFrame

\* set_last_sent: self.last_sent = datetime.now()
SlsStore(t) ==
    /\ pc[t] = "sls_store"
    /\ objects' = [objects EXCEPT ![local[t].ss[1]].last_sent = Some(Some(0))]
    /\ Goto(t, "inc_load")
    /\ UNCHANGED <<cls_instance, local>>
    /\ ThreadFrame

\* ss.requests_per_x += 1: the load
IncLoad(t) ==
    /\ pc[t] = "inc_load"
    /\ IF Obj(t).requests[local[t].w] = None THEN Raise(t, "AttributeError")
       ELSE /\ local' = [local EXCEPT ![t].tmp = Obj(t).requests[local[t].w][1]]
            /\ Goto(t, "inc_store")
    /\ UNCHANGED <<cls_instance, objects>>
    /\ ThreadFrame

\* ss.requests_per_x += 1: the store
IncStore(t) ==
    /\ pc[t] = "inc_store"
    /\ SetRequests(local[t].ss[1], local[t].w, local[t].tmp + 1)
    /\ Goto(t, "compare")
    /\ UNCHANGED <<cls_instance, local>>
    /\ ThreadFrame

\* if ss.requests_per_x == RATE_LIMIT_X: sleep or raise
Compare(t) ==
    /\ pc[t] = "compare"
    /\ IF Obj(t).requests[local[t].w] = Some(Ceiling[local[t].w])
       THEN IF sleep_on_rate_limit
            THEN Goto(t, "sleep") /\ UNCHANGED local
            ELSE Raise(t, "RateLimitError")
       ELSE NextWindow(t, "inc_load", "done")
    /\ UNCHANGED <<cls_instance, objects>>
    /\ ThreadFrame

\* sleep(window): the thread comes back when the window has passed
Sleep(t) ==
    /\ pc[t] = "sleep"
    /\ objects' = [i \in DOMAIN objects |->
                     [objects[i] EXCEPT !.last_sent =
                         IF @ = None THEN None
                         ELSE Some(Age(@[1], WindowLength[local[t].w]))]]
    /\ pc' = [pc EXCEPT ![t] = IF local[t].w = 3 THEN "done" ELSE "inc_load"]
    /\ local' = [u \in Threads |->
                   [local[u] EXCEPT
                      !.last_sent = Age(@, WindowLength[local[t].w]),
                      !.w = IF u = t THEN (IF @ = 3 THEN 1 ELSE @ + 1) ELSE @]]
    /\ UNCHANGED cls_instance
    /\ ThreadFrame

NextThreads ==
    \E t \in Threads :
        \/ NewCheck(t) \/ NewCreate(t) \/ NewInited(t) \/ NewReturn(t)
        \/ InitCheck(t) \/ InitSet(t) \/ InitSesh(t) \/ InitLastSent(t)
        \/ InitRequests(t) \/ Get(t) \/ SlsRead(t) \/ SlsReset(t) \/ SlsStore(t)
        \/ IncLoad(t) \/ IncStore(t) \/ Compare(t) \/ Sleep(t)

SpecThreads == InitThreads /\ [][NextThreads]_vars

(***************************************************************************)
(*     ausmash/models/game.py, ausmash/classes/region.py: short names      *)
(***************************************************************************)

\* The short names a Game or Region may be made from.
ShortNames == {"A", "B"}

\* The listing of the type, Game.all() (pocket/games) or Region.all() (regions),
\* as as_dict() keys it: for each short name the field map of the entry that has
\* it, or nothing. Every entry has its identifier and its short name.
Listings ==
    [ShortNames -> {None} \cup {Some({"ID", "Short"} \cup F) : F \in SUBSET {"X", "Y"}}]

\* A plausible slip: _complete is not overridden, so Resource._complete runs on
\* the field map {"Short"}, which has neither a link nor an identifier.
complete_by_short_NotOverridden(cls, short, listing) ==
    [kind |-> "NotImplementedError", listed |-> FALSE, fields |-> {}]

\* Game._complete / Region._complete of an instance whose field map is
\* {"Short"}: Game indexes as_dict() with the short name (KeyError of the short
\* name when it is not listed), Region searches all() and raises
\* NotImplementedError when nothing matches.
complete_by_short(cls, short, listing) ==
    IF listing[short] # None
    THEN [kind |-> "value", listed |-> TRUE, fields |-> listing[short][1]]
    ELSE IF cls = "Game"
    THEN [kind |-> "KeyError", listed |-> TRUE, fields |-> {}]
    ELSE [kind |-> "NotImplementedError", listed |-> TRUE, fields |-> {}]

\* Resource.__getitem__ on the instance r made from a short name. r.complete is
\* what cached_property holds of r._complete, the listed entry; the key is then
\* read from that entry, itself a resource with an identifier (r.entry_complete
\* is what cached_property holds of the entry's own _complete, out the answer to
\* the request the entry may make). key tells which key a KeyError names.
getitem_by_short(r, name, out) ==
    IF name \in r.data
    THEN [kind |-> "value", key |-> "none", listed |-> FALSE, item |-> FALSE,
          complete |-> r.complete, entry_complete |-> r.entry_complete]
    ELSE LET c == IF r.complete # None
                  THEN [kind |-> "value", listed |-> FALSE, fields |-> r.complete[1]]
                  ELSE complete_by_short(r.cls, r.short, r.listing)
         IN  IF c.kind = "value"
             THEN LET g == getitem([data |-> c.fields, complete |-> r.entry_complete],
                                   name, out)
                  IN  [kind |-> g.kind,
                       key |-> IF g.kind = "KeyError" THEN "name" ELSE "none",
                       listed |-> c.listed, item |-> g.fetched,
                       complete |-> Some(c.fields), entry_complete |-> g.complete]
             ELSE [kind |-> "KeyError",
                   key |-> IF c.kind = "KeyError" THEN "short" ELSE "name",
                   listed |-> c.listed, item |-> FALSE,
                   complete |-> None, entry_complete |-> None]

\* Game(short) or Region(short): the field map is {"Short"} and nothing is
\* fetched. The listing is what the server holds.
InitShort ==
    /\ \E cls \in {"Game", "Region"}, short \in ShortNames, listing \in Listings :
          res = [cls |-> cls, short |-> short, listing |-> listing, data |-> {"Short"},
                 complete |-> None, entry_complete |-> None]
    /\ rret = [op |-> "none", name |-> "Short", kind |-> "none", key |-> "none",
               listed |-> FALSE, item |-> FALSE]
    /\ ClientIdle /\ PhasesIdle /\ LadderIdle /\ ParseIdle /\ ThreadsIdle

\* One field read r[name].
ReadShort(name, out) ==
    /\ LET g == getitem_by_short(res, name, out)
       IN  /\ res' = [res EXCEPT !.complete = g.complete,
                                 !.entry_complete = g.entry_complete]
           /\ rret' = [op |-> "getitem", name |-> name, kind |-> g.kind, key |-> g.key,
                       listed |-> g.listed, item |-> g.item]
    /\ UNCHANGED <<clientVars, phaseVars, ladderVars, parseVars, threadVars>>

NextShort ==
    \E name \in {"Short", "X", "Y"}, out \in FetchOutcomes : ReadShort(name, out)

SpecShort == InitShort /\ [][NextShort]_vars

(***************************************************************************)
(*               ausmash/classes/match.py: the upset factor                *)
(***************************************************************************)

\* A plausible slip: the two terms are exchanged.
upset_factor_LoserFirst(seeds, winner_seed, loser_seed) ==
    IF ~seeds THEN None
    ELSE IF winner_seed = None \/ loser_seed = None THEN None
    ELSE Some(rounds_from_victory(loser_seed[1]) - rounds_from_victory(winner_seed[1]))

\* Match.upset_factor and _BasePocketMatch.upset_factor. seeds tells whether
\* event.seeds is there (the bracket is on start.gg); winner_seed and loser_seed
\* are seeds.get(...) of the two sides, None for a side that is not seeded.
upset_factor(seeds, winner_seed, loser_seed) ==
    IF ~seeds THEN None
    ELSE IF winner_seed = None \/ loser_seed = None THEN None
    ELSE Some(rounds_from_victory(winner_seed[1]) - rounds_from_victory(loser_seed[1]))

\* No upset factor has been asked for yet.
InitUpset ==
    /\ lret = [op |-> "none", seeds |-> FALSE, winner_seed |-> None,
               loser_seed |-> None, factor |-> None]
    /\ ClientIdle /\ ResourceIdle /\ PhasesIdle /\ ParseIdle /\ ThreadsIdle

\* One read of upset_factor of a match.
UpsetFactor(seeds, winner_seed, loser_seed) ==
    /\ lret' = [op |-> "upset_factor", seeds |-> seeds, winner_seed |-> winner_seed,
                loser_seed |-> loser_seed,
                factor |-> upset_factor(seeds, winner_seed, loser_seed)]
    /\ UNCHANGED <<clientVars, resourceVars, phaseVars, parseVars, threadVars>>

NextUpset ==
    \E seeds \in BOOLEAN,
       winner_seed \in {None} \cup {Some(p) : p \in 1 .. MaxPlacing},
       loser_seed \in {None} \cup {Some(p) : p \in 1 .. MaxPlacing} :
        UpsetFactor(seeds, winner_seed, loser_seed)

SpecUpset == InitUpset /\ [][NextUpset]_vars

(***************************************************************************)
(*        ausmash/models/result.py: the placing of a drowned player        *)
(***************************************************************************)

\* Bounds: the placings and head counts tried, and the number of pools.
MaxEntrants == 6
MaxPools == 2

\* int(x) of the quotient num / den: the fraction is cut off towards zero. The
\* code divides and multiplies doubles, (a / b) * n; for the magnitudes tried the
\* double so obtained has the same integer part as the exact a * n / b.
IntOfQuotient(num, den) ==
    LET n == IF num < 0 THEN -num ELSE num
        d == IF den < 0 THEN -den ELSE den
    IN  IF (num < 0) = (den < 0) THEN n \div d ELSE -(n \div d)

\* [p for p in possible_placings if highest_drown_placing < p <= lowest_placing]
drown_placings(highest_drown_placing, lowest_placing) ==
    SelectSeq(possible_placings,
              LAMBDA p : highest_drown_placing < p /\ p <= lowest_placing)

\* Result.get_pools_drown_placing: how it ends and what it returns. The division
\* raises ZeroDivisionError when the pools are no larger than the number that
\* leaves each; drown_placings[index] raises IndexError when the slice is empty,
\* as the index is then len - 1 = -1.
get_pools_drown_placing(pool_result, people_who_made_it_out, highest_drown_placing, number_of_pools, lowest_placing, number_of_people_in_this_pools_round) ==
    LET placing_to_not_drown == people_who_made_it_out \div number_of_pools
        min_people_in_every_pool ==
            number_of_people_in_this_pools_round \div number_of_pools
        placings == drown_placings(highest_drown_placing, lowest_placing)
    IN  IF min_people_in_every_pool - placing_to_not_drown = 0
        THEN [kind |-> "ZeroDivisionError", result |-> None]
        ELSE LET index0 == IntOfQuotient(
                               (pool_result - (placing_to_not_drown + 1)) * Len(placings),
                               min_people_in_every_pool - placing_to_not_drown)
                 index1 == IF index0 > 0 THEN index0 ELSE 0
                 index == IF index1 >= Len(placings) THEN Len(placings) - 1 ELSE index1
             IN  IF index = -1
                 THEN [kind |-> "IndexError", result |-> None]
                 ELSE [kind |-> "value", result |-> Some(placings[index + 1])]

\* The arguments of one call, positive integers; nothing has been computed.
InitDrown ==
    /\ \E pool_result \in 1 .. MaxEntrants, people_who_made_it_out \in 1 .. MaxEntrants,
          highest_drown_placing \in 1 .. MaxEntrants, number_of_pools \in 1 .. MaxPools,
          lowest_placing \in 1 .. MaxEntrants,
          number_of_people_in_this_pools_round \in 1 .. MaxEntrants :
          lret = [op |-> "none",
                  pool_result |-> pool_result,
                  people_who_made_it_out |-> people_who_made_it_out,
                  highest_drown_placing |-> highest_drown_placing,
                  number_of_pools |-> number_of_pools,
                  lowest_placing |-> lowest_placing,
                  number_of_people_in_this_pools_round |->
                      number_of_people_in_this_pools_round,
                  kind |-> "none", result |-> None]
    /\ ClientIdle /\ ResourceIdle /\ PhasesIdle /\ ParseIdle /\ ThreadsIdle

\* The call of get_pools_drown_placing with these arguments.
GetPoolsDrownPlacing ==
    /\ lret.op = "none"
    /\ LET r == get_pools_drown_placing(lret.pool_result, lret.people_who_made_it_out,
                                        lret.highest_drown_placing, lret.number_of_pools,
                                        lret.lowest_placing,
                                        lret.number_of_people_in_this_pools_round)
       IN  lret' = [lret EXCEPT !.op = "get_pools_drown_placing",
                                !.kind = r.kind, !.result = r.result]
    /\ UNCHANGED <<clientVars, resourceVars, phaseVars, parseVars, threadVars>>

NextDrown == GetPoolsDrownPlacing

SpecDrown == InitDrown /\ [][NextDrown]_vars

(***************************************************************************)
(*              ausmash/api.py: the files of the cache store               *)
(***************************************************************************)

\* The text searched for with players/search, written as its characters.
SearchTerms == {<<"a">>, <<"b">>, <<"a", ".", "b">>, <<"a", ".", "c">>}
\* The requests of Player.search: the path players/search and the parameter q.
SearchRequests ==
    {[path |-> "players/search", params |-> <<<<"q", t>>>>] : t \in SearchTerms}

\* The characters of the key of a search request: create_key gives the path, "/",
\* "q", "=" and the text, whose characters follow one by one.
KeyChars(key) == SubSeq(key, 1, Len(key) - 1) \o key[Len(key)]

\* PurePath.suffix of the last component of a path: the part from the last "."
\* on, when that "." is neither the first nor the last character of the
\* component. The result is the place of that "." in chars, or 0 for no suffix.
SuffixStart(chars) ==
    LET slashes == {i \in DOMAIN chars : chars[i] = "/"}
        first == IF slashes = {} THEN 1
                 ELSE 1 + CHOOSE i \in slashes : \A j \in slashes : j <= i
        dots == {i \in first .. Len(chars) : chars[i] = "."}
    IN  IF dots = {} THEN 0
        ELSE LET i == CHOOSE d \in dots : \A e \in dots : e <= d
             IN  IF first < i /\ i < Len(chars) THEN i ELSE 0

\* _FileDictWithDirectories._path: cache_dir.joinpath(key).with_suffix(extension).
\* with_suffix puts the extension in the place of the suffix the name has.
FileDict_path(key) ==
    LET chars == KeyChars(key)
        i == SuffixStart(chars)
    IN  (IF i = 0 THEN chars ELSE SubSeq(chars, 1, i - 1)) \o <<".ext">>

FilePaths == {FileDict_path(create_key(r)) : r \in SearchRequests}

\* An empty cache directory. A file holds the response it was written with, here
\* its body and the key it was stored under.
InitFiles ==
    /\ disk = [p \in FilePaths |-> None]
    /\ ret = [op |-> "none", req |-> CHOOSE r \in SearchRequests : TRUE, entry |-> None]
    /\ sleep_on_rate_limit = TRUE /\ last_sent = None
    /\ requests_per_second = 0 /\ requests_per_minute = 0 /\ requests_per_hour = 0
    /\ memo = None
    /\ ResourceIdle /\ PhasesIdle /\ LadderIdle /\ ParseIdle /\ ThreadsIdle

FilesFrame ==
    UNCHANGED <<sleep_on_rate_limit, last_sent, requests_per_second,
                requests_per_minute, requests_per_hour, memo, resourceVars, phaseVars,
                ladderVars, parseVars, threadVars>>

\* responses[key] = value: the response to req, with body c, is saved.
SetItem(req, c) ==
    /\ disk' = [disk EXCEPT ![FileDict_path(create_key(req))] =
                    Some([key |-> create_key(req), content |-> c])]
    /\ ret' = [op |-> "setitem", req |-> req, entry |-> None]
    /\ FilesFrame

\* responses[key]: the file of the key is read, if there is one.
GetItem(req) ==
    /\ ret' = [op |-> "getitem", req |-> req,
               entry |-> disk[FileDict_path(create_key(req))]]
    /\ UNCHANGED disk
    /\ FilesFrame

\* del responses[key]: the file of the key is unlinked.
DelItem(req) ==
    /\ disk[FileDict_path(create_key(req))] # None
    /\ disk' = [disk EXCEPT ![FileDict_path(create_key(req))] = None]
    /\ ret' = [op |-> "delitem", req |-> req, entry |-> None]
    /\ FilesFrame

NextFiles ==
    \/ \E req \in SearchRequests, c \in Contents : SetItem(req, c)
    \/ \E req \in SearchRequests : GetItem(req)
    \/ \E req \in SearchRequests : DelItem(req)

SpecFiles == InitFiles /\ [][NextFiles]_vars

(***************************************************************************)
(*                        Claims about the client                          *)
(***************************************************************************)

HasFresh(req) == disk[create_key(req)] # None /\ disk[create_key(req)][1].fresh
HasExpired(req) == disk[create_key(req)] # None /\ ~disk[create_key(req)][1].fresh

\* The same key/value pairs, whatever their order.
SamePairs(r1, r2) ==
    /\ r1.path = r2.path
    /\ {r1.params[i] : i \in DOMAIN r1.params} = {r2.params[i] : i \in DOMAIN r2.params}
    /\ Len(r1.params) = Len(r2.params)

\* C1: a call that returns a response from the network stores it (in the cache
\* entry of its key and in the memo of its arguments); a stored response does not
\* change while its entry is unexpired; and every call for a request whose entry is
\* unexpired sends no request, leaves requests_per_second, requests_per_minute,
\* requests_per_hour and last_sent as they are, and returns the stored bytes.
C1_CacheHitIsFree ==
    [][\A req \in ParamRequests, net \in NetOutcomes :
          CallApi(req, net) =>
              /\ (ret'.kind = "value" /\ ret'.sent /\ ~ret'.from_cache) =>
                    /\ disk'[create_key(req)] = Some([content |-> ret'.content, fresh |-> TRUE])
                    /\ memo'[req] = Some(ret'.content)
              /\ HasFresh(req) =>
                    /\ ~ret'.sent
                    /\ UNCHANGED <<requests_per_second, requests_per_minute,
                                   requests_per_hour, last_sent>>
                    /\ ret'.kind = "value"
                    /\ ret'.content = disk[create_key(req)][1].content
                    /\ disk' = disk
      ]_vars

\* C1, witness: a call was answered from an unexpired entry, without a request, in
\* a process that had counted a request before.
C1_Witness ==
    /\ ret.kind = "value" /\ ~ret.sent /\ (ret.from_cache \/ ret.memoized)
    /\ last_sent # None /\ requests_per_hour >= 1
    /\ \E req \in ParamRequests : HasFresh(req)

\* C2: two requests that hold the same key/value pairs in a different order have
\* the same cache key, so that a call for the one is served from the unexpired
\* entry the other stored, without a request.
C2_PermutedParamsShareEntry ==
    [][\A r1 \in ParamRequests, r2 \in ParamRequests, net \in NetOutcomes :
          (SamePairs(r1, r2) /\ HasFresh(r1) /\ CallApi(r2, net)) =>
              (create_key(r1) = create_key(r2) /\ ~ret'.sent)
      ]_vars

\* C3: no call raises RateLimitError under the sleep policy; the uncached call
\* that is the RATE_LIMIT_SECOND-th of a burst (less than a second between one
\* and the next) raises RateLimitError('second') with the ceiling as
\* max_requests under the fail-fast policy, and under the sleep policy sleeps a
\* second at least and then returns the response it obtained.
C3_SecondCeiling ==
    /\ ret.kind = "RateLimitError" => ~sleep_on_rate_limit
    /\ (ret.uncached /\ ret.burst = RATE_LIMIT_SECOND) =>
          IF sleep_on_rate_limit
          THEN /\ ret.slept >= second
               /\ ret.status = 200 =>
                     /\ ret.kind = "value"
                     /\ disk[create_key(PlainRequest)] # None
                     /\ ret.content = disk[create_key(PlainRequest)][1].content
          ELSE /\ ret.kind = "RateLimitError"
               /\ ret.time_period = "second"
               /\ ret.max_requests = RATE_LIMIT_SECOND

\* C4: an uncached request that found last_sent None or at least a window old
\* is counted, and the counter of that window, reset before the increment, is 1
\* after it.
C4_WindowReset ==
    ret.uncached =>
        /\ (ret.before = None \/ ret.before[1] >= second)
              => ret.counted /\ requests_per_second = 1
        /\ (ret.before = None \/ ret.before[1] >= minute)
              => ret.counted /\ requests_per_minute = 1
        /\ (ret.before = None \/ ret.before[1] >= hour)
              => ret.counted /\ requests_per_hour = 1

\* C5: a call whose request was answered with status 404 raises NotFoundError.
C5_NotFoundOn404 ==
    (ret.sent /\ ret.status = 404) => ret.kind = "NotFoundError"

\* C6: a call for a request whose entry has expired sends a request; a 200 answer
\* replaces the entry and is returned; when the transport fails the expired entry
\* is returned.
C6_ExpiredIsRefetched ==
    [][\A req \in ParamRequests, net \in NetOutcomes :
          (CallApi(req, net) /\ HasExpired(req)) =>
              /\ ret'.sent
              /\ net.status = 200 =>
                    /\ ret'.kind = "value" /\ ret'.content = net.content
                    /\ disk'[create_key(req)] = Some([content |-> net.content, fresh |-> TRUE])
              /\ net.status = 0 =>
                    /\ ret'.kind = "value"
                    /\ ret'.content = disk[create_key(req)][1].content
      ]_vars

(***************************************************************************)
(*                    Claims about the resource proxy                      *)
(***************************************************************************)

\* C7: a read of a key the fragment holds fetches nothing; on an instance with a
\* link or an identifier the first read of a missing key makes exactly one fetch;
\* and once a fetch has returned the complete representation, no read of any key
\* fetches again.
C7_ResolvedOnce ==
    [][rret'.op \in {"getitem", "get"} =>
          LET name == rret'.name
          IN  /\ name \in res.data => res'.fetches = res.fetches
              /\ (name \notin res.data /\ res.fetches = 0 /\ "is_complete" \notin res.data
                    /\ ("APILink" \in res.data \/ "ID" \in res.data))
                    => res'.fetches = 1
              /\ res.resolved => (res'.fetches = res.fetches /\ ~rret'.fetched)
      ]_vars

\* C7, witness: after the fetch that resolved the instance, a key that the
\* fragment lacks was read without another fetch.
C7_Witness ==
    /\ res.resolved /\ res.fetches = 1
    /\ rret.name \notin res.data /\ ~rret.fetched /\ rret.kind = "value"

\* C8: an instance fetches at most once, whatever is read and however the first
\* fetch ended.
C8_AtMostOneAttempt == res.fetches <= 1

\* C9: r[name] raises KeyError, and r.get(name) returns the default, when the key
\* is missing and the instance has neither link nor identifier (nothing is fetched
\* then), or the fetch ends in NotFoundError, or the instance is complete.
C9_MissingFieldIsKeyError ==
    [][(rret'.op \in {"getitem", "get"} /\ rret'.name \notin res.data) =>
          LET name == rret'.name
              missing == IF rret'.op = "get" THEN "default" ELSE "KeyError"
          IN  /\ ("APILink" \notin res.data /\ "ID" \notin res.data)
                    => (rret'.kind = missing /\ ~rret'.fetched)
              /\ (rret'.fetched /\ rret'.answer = "NotFoundError")
                    => rret'.kind = missing
              /\ "is_complete" \in res.data
                    => (rret'.kind = missing /\ ~rret'.fetched)
              /\ (res.complete # None /\ name \notin res.complete[1])
                    => (rret'.kind = missing /\ ~rret'.fetched)
      ]_vars

\* C9, witness: a read fetched, the fetch ended in NotFoundError, and the read
\* raised KeyError.
C9_Witness ==
    /\ rret.op = "getitem" /\ rret.kind = "KeyError" /\ rret.fetched
    /\ rret.answer = "NotFoundError"
    /\ ~res.resolved /\ res.complete = None

(***************************************************************************)
(*                 Claims about the bracket topology resolver              *)
(***************************************************************************)

\* Pools, Top-K, Top-8 in this order: the three events of the tournament have the
\* same game, type and bracket flags, the names of Top-K are among those of Pools
\* and the names of Top-8, some at least, among those of Top-K.
IsChain(t) ==
    /\ t[1].kind = t[2].kind /\ t[2].kind = t[3].kind
    /\ t[3].results # {}
    /\ t[3].results \subseteq t[2].results
    /\ t[2].results \subseteq t[1].results

\* C10: in such a tournament the previous phases of Pools, Top-K, Top-8 are None,
\* Pools, Top-K, the next phases are Top-K, Top-8, None, the start phase of each
\* is Pools and the final phase of each is Top-8.
C10_ChainPhases ==
    IsChain(tourney) =>
        /\ pret.op = "previous_phase" =>
              pret.result = (IF pret.e = 1 THEN None ELSE Some(pret.e - 1))
        /\ pret.op = "next_phase" =>
              pret.result = (IF pret.e = 3 THEN None ELSE Some(pret.e + 1))
        /\ pret.op = "start_phase" => pret.result = Some(1)
        /\ pret.op = "final_phase" => pret.result = Some(3)

\* C10, witness: Top-8 was asked for its previous phase in a chain where Pools
\* would qualify as well, and the answer was Top-K.
C10_Witness ==
    /\ IsChain(tourney)
    /\ tourney[3].results # tourney[1].results
    /\ pret.op = "previous_phase" /\ pret.e = 3 /\ pret.result = Some(2)

\* The events that the progression search is said to leave alone.
IsIsolatedKind(k) == k.side \/ k.redemption \/ k.type = "Teams"

\* C11: a side bracket, a redemption bracket or a Teams event has no previous and
\* no next phase, whatever players it shares with the other events, and is its own
\* start phase and final phase.
C11_SpecialEventsIsolated ==
    IsIsolatedKind(tourney[pret.e].kind) =>
        /\ pret.op \in {"previous_phase", "next_phase"} => pret.result = None
        /\ pret.op \in {"start_phase", "final_phase"} => pret.result = Some(pret.e)

\* The events met by following next_phase_for_event (previous_phase_for_event
\* when previous) from e, for at most k steps.
RECURSIVE Follow(_, _, _, _)
Follow(t, e, previous, k) ==
    LET o == IF previous THEN previous_phase_for_event(t, e)
             ELSE next_phase_for_event(t, e)
    IN  IF k = 0 \/ o = None THEN <<e>>
        ELSE <<e>> \o Follow(t, o[1], previous, k - 1)

NoRepeat(path) == \A i, j \in DOMAIN path : path[i] = path[j] => i = j

\* C12: following next_phase_for_event from an event visits no event twice and
\* ends, after at most (number of events - 1) steps, at an event without next
\* phase, which is what final_phase_for_event answers; likewise
\* previous_phase_for_event and start_phase_for_event.
C12_FollowingEndsAtFinal ==
    pret.op \in {"start_phase", "final_phase"} =>
        LET previous == (pret.op = "start_phase")
            path == Follow(tourney, pret.e, previous, Cardinality(EventIndices) - 1)
            last == path[Len(path)]
        IN  /\ NoRepeat(path)
            /\ Len(path) <= Cardinality(EventIndices)
            /\ (IF previous THEN previous_phase_for_event(tourney, last)
                 ELSE next_phase_for_event(tourney, last)) = None
            /\ pret.result = Some(last)

\* C12, witness: the final phase was asked of an event two steps away from it.
C12_Witness ==
    /\ pret.op = "final_phase" /\ pret.e = 1 /\ pret.result = Some(3)
    /\ next_phase_for_event(tourney, 1) = Some(2)
    /\ next_phase_for_event(tourney, 2) = Some(3)

\* C15: total_entrants of a result is the number of results of the start phase of
\* its event: of the first phase for a result of a later phase, and of its own
\* event (number_of_entrants) for an event without previous phase.
C15_TotalEntrantsOfStartPhase ==
    pret.op = "total_entrants" =>
        /\ pret.result =
              Some(Cardinality(tourney[start_phase_for_event(tourney, pret.e)].results))
        /\ previous_phase_for_event(tourney, pret.e) = None
              => pret.result = Some(Cardinality(tourney[pret.e].results))

\* C15, witness: a result of the last phase of a chain counts more entrants than
\* its own phase has.
C15_Witness ==
    /\ pret.op = "total_entrants" /\ pret.e = 3
    /\ previous_phase_for_event(tourney, 3) = Some(2)
    /\ previous_phase_for_event(tourney, 2) = Some(1)
    /\ pret.result = Some(Cardinality(tourney[1].results))
    /\ Cardinality(tourney[1].results) > Cardinality(tourney[3].results)

(***************************************************************************)
(*                     Claims about the placing ladder                     *)
(***************************************************************************)

\* C13, as claimed: first place and second place are both zero rounds from
\* victory.
C13_FirstAndSecondAreZero ==
    (lret.op = "seed_performance_rating" /\ lret.real_placing \in {1, 2})
        => lret.placing_rounds = 0

\* C13, amended: first place is zero rounds from victory and second place is one.
C13_FirstIsZeroSecondIsOne ==
    lret.op = "seed_performance_rating" =>
        /\ lret.real_placing = 1 => lret.placing_rounds = 0
        /\ lret.real_placing = 2 => lret.placing_rounds = 1
        /\ lret.seed = Some(1) => lret.seed_rounds = Some(0)
        /\ lret.seed = Some(2) => lret.seed_rounds = Some(1)

\* C13, witness: the rating of a second place seeded first was computed.
C13_Witness ==
    /\ lret.op = "seed_performance_rating"
    /\ lret.seed = Some(1) /\ lret.real_placing = 2 /\ lret.rating = Some(-1)

\* The placing ladder as the claim writes it.
Ladder == <<1, 2, 3, 4, 5, 7, 9, 13, 17, 25, 33, 49>>
\* The 0-based index of the greatest entry of Ladder not exceeding p.
LadderIndex(p) ==
    (CHOOSE i \in DOMAIN Ladder :
        /\ Ladder[i] <= p
        /\ \A j \in DOMAIN Ladder : Ladder[j] <= p => j <= i) - 1

\* C14: rounds_from_victory(p) is the 0-based index of the greatest entry of the
\* strictly increasing ladder 1, 2, 3, 4, 5, 7, 9, 13, 17, 25, ... not exceeding p;
\* it does not decrease when p grows, 9 and 12 give the same value and 13 gives one
\* more.
C14_LadderIndex ==
    /\ \A i, j \in DOMAIN possible_placings :
          i < j => possible_placings[i] < possible_placings[j]
    /\ lret.op = "seed_performance_rating" =>
          /\ lret.placing_rounds = LadderIndex(lret.real_placing)
          /\ lret.seed # None =>
                /\ lret.seed_rounds = Some(LadderIndex(lret.seed[1]))
                /\ lret.seed[1] <= lret.real_placing
                      => lret.seed_rounds[1] <= lret.placing_rounds
                /\ (lret.seed[1] = 9 /\ lret.real_placing = 12)
                      => lret.placing_rounds = lret.seed_rounds[1]
                /\ (lret.seed[1] = 12 /\ lret.real_placing = 13)
                      => lret.placing_rounds = lret.seed_rounds[1] + 1

\* C14, witness: a seed of 12 placed 13th, one round further from victory.
C14_Witness ==
    /\ lret.op = "seed_performance_rating"
    /\ lret.seed = Some(12) /\ lret.real_placing = 13
    /\ lret.seed_rounds = Some(6) /\ lret.placing_rounds = 7 /\ lret.rating = Some(-1)

(***************************************************************************)
(*                      Claims about Character.parse                       *)
(***************************************************************************)

\* The characters of the roster that match the name asked for by themselves: by
\* their normalized name, or with use_extra_info by any of their names or their
\* fighter number.
IndividualMatches ==
    {c \in roster :
        IF cret.use_extra_info THEN extra_info_matches(c, normalize_name(cret.name))
        ELSE normalize_name(c.name) = normalize_name(cret.name)}

\* C16: a group is returned only with use_extra_info and return_groups and when no
\* individual character matches; a matching individual character is returned in
\* preference to a group of the same name; when nothing matches the result is
\* None, or KeyError with error_if_not_found.
C16_IndividualBeforeGroup ==
    cret.result.kind # "none" =>
        LET missing == IF cret.error_if_not_found THEN "KeyError" ELSE "None"
        IN  /\ cret.result.kind = "CombinedCharacter" =>
                  cret.use_extra_info /\ cret.return_groups /\ IndividualMatches = {}
            /\ IndividualMatches # {} =>
                  /\ cret.result.kind = "Character"
                  /\ \E c \in IndividualMatches : cret.result.name = c.name
            /\ cret.result.kind \notin {"Character", "CombinedCharacter"} =>
                  cret.result.kind = missing
            /\ (IndividualMatches = {} /\ ~(cret.use_extra_info /\ cret.return_groups))
                  => cret.result.kind = missing

\* C16, witness: the name is that of a group and also a name of a character, both
\* flags are set, and the character was returned.
C16_Witness ==
    /\ cret.name = <<"Birds">> /\ cret.use_extra_info /\ cret.return_groups
    /\ \E c \in roster : <<"Birds">> \in c.groups
    /\ cret.result.kind = "Character"

\* C16, witness: no character matches and a group made of the two named characters
\* was returned.
C16_WitnessGroup ==
    /\ cret.name = <<"Fox", "&", "Falco">> /\ IndividualMatches = {}
    /\ cret.result.kind = "CombinedCharacter"
    /\ cret.result.chars = {<<"Fox">>, <<"Falco">>}

(***************************************************************************)
(*              Claims about the client under several threads              *)
(***************************************************************************)

\* C17: at most one _SessionSingleton is ever created and initialised, also when
\* several threads make their first call together: every construction returns the
\* same object, and its session is made once and never made again.
C17_OneInstance ==
    /\ Len(objects) <= 1
    /\ \A i \in DOMAIN objects : objects[i].sesh # None => objects[i].sesh[1] <= 1
    /\ \A t, u \in Threads :
          (local[t].ss # None /\ local[u].ss # None) => local[t].ss = local[u].ss

\* The calls that were not answered from the cache.
NonCached == {t \in Threads : local[t].from_cache = Some(FALSE)}

\* C18: no counter update is lost: when the threads' calls have all completed, on
\* one client initialised once, without error and without a counter having been
\* reset, each counter stands at the number of calls that were not cached.
C18_NoLostUpdate ==
    (/\ \A t \in Threads : pc[t] = "done" /\ local[t].error = "none"
     /\ Len(objects) = 1
     /\ objects[1].sesh = Some(1)
     /\ objects[1].resets = 0)
        => \A w \in Windows : objects[1].requests[w] = Some(Cardinality(NonCached))

(***************************************************************************)
(*                   Further claims about the rate budget                  *)
(***************************************************************************)

\* C19: the rate budget is consulted before the network: a call that ends in
\* RateLimitError has sent no request, and every call that attempted the network
\* is one that consulted the budget.
C19_BudgetBeforeNetwork ==
    /\ ret.kind = "RateLimitError" => ~ret.sent
    /\ ret.sent => ret.uncached

\* C20: under the fail-fast policy, once a burst of uncached calls (less than a
\* second between one and the next) has reached the per-second ceiling, every
\* further call of the burst raises RateLimitError, so no more calls than the
\* ceiling return a response within the window.
C20_CeilingHoldsForWindow ==
    (~sleep_on_rate_limit /\ ret.uncached /\ ret.burst > RATE_LIMIT_SECOND)
        => ret.kind = "RateLimitError"

\* C30: between calls requests_per_second <= requests_per_minute <=
\* requests_per_hour, every request that reached the network having been counted
\* in all three windows: the uncached calls of a burst are all in the counters.
C30_CountersOrdered ==
    /\ requests_per_second <= requests_per_minute
    /\ requests_per_minute <= requests_per_hour
    /\ ret.burst <= requests_per_second

(***************************************************************************)
(*                  Claims about the links between phases                  *)
(***************************************************************************)

\* The events that may be the previous phase of the event at place e: they come
\* before e, agree with it on game, type and both bracket flags, have a result,
\* and have a result for every player of e.
Predecessors(t, e) ==
    {p \in EventIndices :
        /\ p < e
        /\ t[p].kind = t[e].kind
        /\ t[p].results # {}
        /\ t[e].results \subseteq t[p].results}

\* C21 as stated: previous_phase_for_event(e) answers with the candidate of the
\* greatest place, and with None exactly when there is no candidate.
C21_NoneExactlyWithoutCandidate ==
    pret.op = "previous_phase" =>
        LET c == Predecessors(tourney, pret.e)
        IN  /\ pret.result # None =>
                  pret.result[1] \in c /\ \A q \in c : q <= pret.result[1]
            /\ pret.result = None <=> c = {}

\* C21 amended: previous_phase_for_event(e) answers with the candidate of the
\* greatest place, and with None exactly when e has no results or there is no
\* candidate.
C21_PreviousIsGreatestCandidate ==
    pret.op = "previous_phase" =>
        LET c == Predecessors(tourney, pret.e)
        IN  /\ pret.result # None =>
                  pret.result[1] \in c /\ \A q \in c : q <= pret.result[1]
            /\ pret.result = None <=> (tourney[pret.e].results = {} \/ c = {})

\* Two candidates, and the later one is the answer.
C21_Witness ==
    /\ pret.op = "previous_phase" /\ pret.e = 3
    /\ Predecessors(tourney, 3) = {1, 2}
    /\ pret.result = Some(2)

\* An event without results has candidates and still gets None.
C21_WitnessNoResults ==
    /\ pret.op = "previous_phase"
    /\ tourney[pret.e].results = {}
    /\ Predecessors(tourney, pret.e) # {}
    /\ pret.result = None

\* C22 as stated: next_phase_for_event(e) answers with s only if every player
\* with a result in e has a result in s.
C22_NextHoldsEveryPlayer ==
    (pret.op = "next_phase" /\ pret.result # None) =>
        tourney[pret.e].results \subseteq tourney[pret.result[1]].results

\* C22 amended: next_phase_for_event(e) answers with s only if every player
\* with a result in s has a result in e.
C22_NextPlayersCameFromEvent ==
    (pret.op = "next_phase" /\ pret.result # None) =>
        tourney[pret.result[1]].results \subseteq tourney[pret.e].results

\* Pools of two players feed a bracket that one of them reached.
C22_Witness ==
    /\ pret.op = "next_phase" /\ pret.e = 1 /\ pret.result = Some(2)
    /\ tourney[2].results # {}
    /\ tourney[2].results # tourney[1].results

\* C23: an event without results is never linked: its previous and next phase
\* are None, and it is the previous or next phase of no event.
C23_NoResultsNeverLinked ==
    pret.op \in {"previous_phase", "next_phase"} =>
        /\ tourney[pret.e].results = {} => pret.result = None
        /\ pret.result # None => tourney[pret.result[1]].results # {}

\* C24: no two distinct events have the same next phase, and no two distinct
\* events have the same previous phase.
C24_LinksAreOneToOne ==
    \A a, b \in EventIndices :
        a # b =>
            /\ next_phase_for_event(tourney, a) # None =>
                  next_phase_for_event(tourney, a) # next_phase_for_event(tourney, b)
            /\ previous_phase_for_event(tourney, a) # None =>
                  previous_phase_for_event(tourney, a) # previous_phase_for_event(tourney, b)

\* C25: a phase that the Tournament object has stored for (event, direction) is
\* answered from the store, without computing the candidates again.
C25_StoredPhaseIsNotRecomputed ==
    [][(/\ pret'.op \in {"previous_phase", "next_phase", "start_phase", "final_phase"}
        /\ <<pret'.e, pret'.op \in {"previous_phase", "start_phase"}>>
              \in DOMAIN phase_event_cache)
          => ~pret'.computed]_vars

(***************************************************************************)
(*          Claims about Game and Region made from a short name            *)
(***************************************************************************)

\* C26 as stated: a read of a missing field fetches the listing and takes the
\* entry with the short name without a request for {base_path}/{id}, and fails
\* with a not-found error when no entry has the short name.
C26_ListingAndNoItemRequest ==
    (rret.op = "getitem" /\ rret.name # "Short") =>
        /\ ~rret.item
        /\ res.listing[res.short] = None => rret.kind = "KeyError"

\* C26 amended: the short-name instance resolves through the listing; a field
\* the listed entry holds is returned without a request for {base_path}/{id}, a
\* field it lacks is the only cause of such a request, and the read fails with
\* KeyError, nothing but the listing having been requested, when no entry has
\* the short name.
C26_ResolvedThroughListing ==
    (rret.op = "getitem" /\ rret.name # "Short") =>
        /\ res.listing[res.short] = None =>
              rret.kind = "KeyError" /\ ~rret.item /\ res.complete = None
        /\ res.listing[res.short] # None =>
              /\ res.complete = res.listing[res.short]
              /\ rret.name \in res.listing[res.short][1] =>
                    rret.kind = "value" /\ ~rret.item
              /\ rret.item => rret.name \notin res.listing[res.short][1]

\* The first read of a listed short name returns a field of the entry.
C26_Witness ==
    /\ rret.op = "getitem" /\ rret.name = "X" /\ rret.listed
    /\ rret.kind = "value" /\ ~rret.item
    /\ "X" \in res.listing[res.short][1]

\* A short name that is not listed.
C26_WitnessNotListed ==
    /\ rret.op = "getitem" /\ rret.name = "X" /\ rret.listed
    /\ res.listing[res.short] = None /\ rret.kind = "KeyError"

(***************************************************************************)
(*                      Claims about the upset factor                      *)
(***************************************************************************)

\* C27 as stated: with both seeds known, upset_factor is the rounds from victory
\* of the loser's seed minus those of the winner's seed.
C27_LoserMinusWinner ==
    (lret.op = "upset_factor" /\ lret.seeds
        /\ lret.winner_seed # None /\ lret.loser_seed # None) =>
        lret.factor = Some(LadderIndex(lret.loser_seed[1])
                              - LadderIndex(lret.winner_seed[1]))

\* C27 amended: with both seeds known, upset_factor is the rounds from victory
\* of the winner's seed minus those of the loser's seed, positive when the
\* worse seed won.
C27_WinnerMinusLoser ==
    (lret.op = "upset_factor" /\ lret.seeds
        /\ lret.winner_seed # None /\ lret.loser_seed # None) =>
        /\ lret.factor = Some(LadderIndex(lret.winner_seed[1])
                                 - LadderIndex(lret.loser_seed[1]))
        /\ lret.winner_seed[1] >= lret.loser_seed[1] => lret.factor[1] >= 0

\* The ninth seed beat the first seed: an upset of six rounds.
C27_Witness ==
    /\ lret.op = "upset_factor" /\ lret.seeds
    /\ lret.winner_seed = Some(9) /\ lret.loser_seed = Some(1)
    /\ lret.factor = Some(6)

(***************************************************************************)
(*               Claims about the placing of a drowned player              *)
(***************************************************************************)

\* C28: for positive arguments of a drowned player (pool_result beyond the
\* placing that leaves the pool) with highest_drown_placing < lowest_placing,
\* get_pools_drown_placing returns, and returns an entry p of the ladder with
\* highest_drown_placing < p <= lowest_placing.
C28_DrownPlacingInSlice ==
    (/\ lret.op = "get_pools_drown_placing"
     /\ lret.pool_result > lret.people_who_made_it_out \div lret.number_of_pools
     /\ lret.highest_drown_placing < lret.lowest_placing) =>
        /\ lret.kind = "value"
        /\ \E i \in DOMAIN possible_placings : possible_placings[i] = lret.result[1]
        /\ lret.highest_drown_placing < lret.result[1]
        /\ lret.result[1] <= lret.lowest_placing

(***************************************************************************)
(*                 Claims about the files of the cache store               *)
(***************************************************************************)

\* C29: a file belongs to one key: requests with different keys never share a
\* file, so what is read for a request is what was stored for that request.
C29_OneFilePerKey ==
    (ret.op = "getitem" /\ ret.entry # None)
        => ret.entry[1].key = create_key(ret.req)

====
